---- MODULE Spec2Model ----
\* Verification model of TNetworkedSimulationModel
\* (Engine/Plugins/Runtime/NetworkPrediction/.../Public/NetworkSimulationModel.h).
\*
\* Tick, Reconcile and InitializeForNetworkRole are translated from that header.
\* The keyframed buffer (TReplicationBuffer), the tick state (TSimulationTickState)
\* and the replication proxies (TReplicator_*) live in headers that are not part
\* of the checked-in sources; they are modelled from the design document and
\* from the way the header uses them.
\*
\* Simulation time is a fixed-point integer (FNetworkSimTime); one unit is one
\* tick of that fixed-point clock.

EXTENDS Integers, Sequences, FiniteSets, TLC

\* ---------------------------------------------------------------------------
\* Bounds of the model
\* ---------------------------------------------------------------------------

\* Highest keyframe the Input buffer is allowed to reach.
MaxKeyframe == 3

\* Largest buffer capacity InitializeForNetworkRole is called with.
MaxBufferSize == 3

\* Number of Tick calls recorded when the debug buffer is compiled in.
MaxDebugFrames == 2

\* Number of NetSerializeProxy and GetProxyDirtyCount calls that are recorded.
MaxDispatched == 2

\* Number of ShouldSendServerRPC calls that are followed, and the largest
\* frame delta time passed to it.
MaxPacerCalls == 8
MaxPacerDelta == 4

\* Number of AddDepdentSimulation and RemoveDependentSimulation calls the
\* host makes itself that are followed.
MaxDirectCalls == 1

\* ---------------------------------------------------------------------------
\* Program constants
\* ---------------------------------------------------------------------------

\* int32 Head = INDEX_NONE: head keyframe of a buffer nothing was written to.
INDEX_NONE == -1

\* Number of distinct sync states of the modelled simulation.
SyncMod == 2

\* The value IDriver::InitSyncState writes.
InitSyncStateValue == 0

\* TAuxState AuxState;  -- the default constructed aux state handed to Update.
DefaultAuxState == 0

\* Capacity of the debug buffer and of the historic buffers.
DebugBufferSize == 2
HistoricBufferSize == 4

Roles == {"ROLE_Authority", "ROLE_AutonomousProxy", "ROLE_SimulatedProxy"}
\* Capacities InitializeForNetworkRole is called with: the smallest and the largest.
BufferSizes == {1, MaxBufferSize}
\* Per-frame deltas (local frame delta and frame delta time of a command).
Deltas == {1, 2}
SyncValues == 0..(SyncMod - 1)

\* An input command is told apart by its frame delta time only.
\* TInputCmd(): the empty command written at keyframe 0.
EmptyInputCmd == [dt |-> 0]
InputCmds == [dt : Deltas]

Max2(a, b) == IF a > b THEN a ELSE b
Min2(a, b) == IF a < b THEN a ELSE b

\* ---------------------------------------------------------------------------
\* TReplicationBuffer: a ring of at most cap elements holding the keyframes
\* tail..head.  elems[i] is the element of keyframe tail + i - 1.
\* ---------------------------------------------------------------------------

NewBuffer == [head |-> INDEX_NONE, elems |-> <<>>, cap |-> 0]

SetBufferSize(b, n) == [b EXCEPT !.cap = n]

GetHeadKeyframe(b) == b.head

GetTailKeyframe(b) == b.head - Len(b.elems) + 1

HasKeyframe(b, k) == k >= GetTailKeyframe(b) /\ k <= b.head

\* Only used where HasKeyframe(b, k) holds (a nullptr is tested with HasKeyframe).
FindElementByKeyframe(b, k) == b.elems[k - GetTailKeyframe(b) + 1]

\* Allocates keyframe head+1, evicting the tail when the ring is full, and
\* stores v in it.
GetWriteNext(b, v) ==
    LET e == Append(b.elems, v)
    IN [b EXCEPT !.head = @ + 1,
                 !.elems = IF Len(e) > b.cap THEN Tail(e) ELSE e]

\* Makes the next GetWriteNext produce keyframe k.  Elements below k are kept
\* when the ring stays contiguous, everything else is dropped.
ResetNextHeadKeyframe(b, k) ==
    IF k >= GetTailKeyframe(b) /\ k <= b.head + 1
    THEN [b EXCEPT !.head = k - 1,
                   !.elems = SubSeq(@, 1, k - GetTailKeyframe(b))]
    ELSE [b EXCEPT !.head = k - 1, !.elems = <<>>]

\* Merge of a live buffer into its (longer) historic copy: the historic copy
\* follows the head of the live buffer, takes the live elements and keeps its
\* own older ones.
CopyAndMerge(h, b) ==
    IF b.head = INDEX_NONE THEN h
    ELSE LET lo0 == IF HasKeyframe(h, GetTailKeyframe(b) - 1)
                    THEN GetTailKeyframe(h) ELSE GetTailKeyframe(b)
             lo == Max2(lo0, b.head - h.cap + 1)
         IN [h EXCEPT !.head = b.head,
                      !.elems = [i \in 1..(b.head - lo + 1) |->
                                   LET k == lo + i - 1
                                   IN IF HasKeyframe(b, k)
                                      THEN FindElementByKeyframe(b, k)
                                      ELSE FindElementByKeyframe(h, k)]]

\* ---------------------------------------------------------------------------
\* TSimulationTickState
\* ---------------------------------------------------------------------------

NewTickState ==
    [LastProcessedInputKeyframe |-> 0,
     MaxAllowedInputKeyframe |-> 0,
     TotalProcessedSimulationTime |-> 0,
     TotalAllowedSimulationTime |-> 0,
     SimulationTimeBuffer |-> NewBuffer]

InitSimulationTimeBuffer(t, n) ==
    [t EXCEPT !.SimulationTimeBuffer = SetBufferSize(@, n)]

GetTotalProcessedSimulationTime(t) == t.TotalProcessedSimulationTime

\* The budget shrinks as processed time grows and grows when PreSimTick gives time.
GetRemainingAllowedSimulationTime(t) ==
    t.TotalAllowedSimulationTime - t.TotalProcessedSimulationTime

\* Sets the total and stamps it at keyframe k of the per-keyframe time buffer.
SetTotalProcessedSimulationTime(t, time, k) ==
    [t EXCEPT !.TotalProcessedSimulationTime = time,
              !.SimulationTimeBuffer =
                  GetWriteNext(ResetNextHeadKeyframe(@, k), time)]

IncrementTotalProcessedSimulationTime(t, dt, k) ==
    SetTotalProcessedSimulationTime(t, t.TotalProcessedSimulationTime + dt, k)

\* ---------------------------------------------------------------------------
\* TSimulation::Update: the user supplied, deterministic step function.
\* ---------------------------------------------------------------------------

Update(dt, cmd, prev, aux) == (prev + dt + aux) % SyncMod


\* ---------------------------------------------------------------------------
\* State
\* ---------------------------------------------------------------------------

VARIABLES
    pc,                 \* position of the host inside Tick ("constructed" before init)
    NETSIM_MODEL_DEBUG, \* whether the debug subsystem is compiled in
    Parameters,         \* FNetSimTickParameters of the Tick in progress
    Buffers,            \* TNetworkSimBufferContainer: Input, Sync, Aux, Debug
    TickInfo,           \* TSimulationTickState
    RepProxy,           \* state of RepProxy_ServerRPC / _Autonomous / _Simulated
    HistoricBuffers,    \* TUniquePtr<TNetworkSimBufferContainer>
    calls,              \* calls made by the Tick in progress, or by the Tick that just returned
    rollback,           \* keyframe K and authoritative state A of the last
                        \* autonomous rollback, with the head H and the tail T
                        \* of the Input buffer at that time
    lastOp,             \* the public call that completed last
    InputLog,           \* every command ever written to the Input buffer
    ParentSimulation,   \* RepProxy_Simulated.ParentSimulation of every simulation
    DependentSimulations, \* RepProxy_Autonomous.DependentSimulations of every simulation
    bDependentSimulationNeedsReconcile, \* the flag of the same name, per simulation
    alive,              \* the simulations whose destructor has not run
    linkCalls,          \* what was called on the simulations so far
    ServerRPCAccumulatedTimeSeconds,
    ServerRPCThresholdTimeSeconds,
    pacerRun,           \* the ShouldSendServerRPC calls since the threshold was set
    dispatched          \* the proxy calls NetSerializeProxy and GetProxyDirtyCount made

\* The dependent-simulation links of a group of simulations.
linkVars == <<ParentSimulation, DependentSimulations,
              bDependentSimulationNeedsReconcile, alive, linkCalls>>

\* The server RPC send helper.
pacerVars == <<ServerRPCAccumulatedTimeSeconds, ServerRPCThresholdTimeSeconds,
               pacerRun>>

\* The buffers, the tick state and the proxies of one simulation.
simVars == <<pc, Parameters, Buffers, TickInfo, RepProxy,
             HistoricBuffers, calls, rollback, lastOp, InputLog>>

\* What Tick, Reconcile and InitializeForNetworkRole never touch.
hostVars == <<linkVars, pacerVars, dispatched>>

vars == <<pc, NETSIM_MODEL_DEBUG, Parameters, Buffers, TickInfo, RepProxy,
          HistoricBuffers, calls, rollback, lastOp, InputLog,
          ParentSimulation, DependentSimulations,
          bDependentSimulationNeedsReconcile, alive, linkCalls,
          ServerRPCAccumulatedTimeSeconds, ServerRPCThresholdTimeSeconds,
          pacerRun, dispatched>>

Input == Buffers.Input
Sync == Buffers.Sync
LastProcessedInputKeyframe == TickInfo.LastProcessedInputKeyframe
MaxAllowedInputKeyframe == TickInfo.MaxAllowedInputKeyframe
TotalProcessedSimulationTime == TickInfo.TotalProcessedSimulationTime

NewDebugState ==
    [LocalDeltaTimeSeconds |-> 0,
     ProcessedKeyframes |-> {},
     LastSentInputKeyframe |-> 0,
     LastReceivedInputKeyframe |-> 0,
     LastProcessedKeyframe |-> 0,
     HeadKeyframe |-> 0,
     RemainingAllowedSimulationTimeSeconds |-> 0]

\* No Tick is in progress.
NoParameters == [Role |-> "none", LocalDeltaTimeSeconds |-> 0]

NoRollback == [K |-> 0, H |-> 0, T |-> 0, A |-> 0]

\* The simulations of one parent/dependents group, and the null pointer.
Sims == {"SimA", "SimB", "SimC"}
NULL == "nullptr"

\* No call was made on the links yet. direct: AddDepdentSimulation or
\* RemoveDependentSimulation was called by the host itself, directCalls
\* times; again: the last call was SetParentSimulation with the parent the
\* simulation already had.
NoLinkCalls == [direct |-> FALSE, directCalls |-> 0, halt |-> "none",
                again |-> FALSE,
                destroyed |-> [sim |-> NULL, hadParent |-> FALSE, dependents |-> 0]]

\* The pacer's times are counted in whole units, TimeUnitsPerSecond of them
\* to the second, so that 1.f / DesiredHz is a whole number for the
\* frequencies drawn; rounding of floats is not modelled.
TimeUnitsPerSecond == 6
DesiredHzs == {2, 3, 6}

\* float ServerRPCThresholdTimeSeconds = 1.f / 999.f: the shortest period.
DefaultServerRPCThreshold == 1

\* The ShouldSendServerRPC calls since the threshold was set: their number,
\* the sum T of their delta times, how many returned true, whether the
\* accumulator was 0 when the threshold was set and whether every delta
\* time was at most the threshold; total counts the calls since construction.
NoPacerRun ==
    [calls |-> 0, total |-> 0, T |-> 0, sent |-> 0,
     fromZero |-> TRUE, capped |-> TRUE]

\* The object as the constructor leaves it.
Init ==
    /\ pc = "constructed"
    /\ NETSIM_MODEL_DEBUG \in BOOLEAN
    /\ Parameters = NoParameters
    /\ Buffers = [Input |-> NewBuffer, Sync |-> NewBuffer,
                  Aux |-> NewBuffer, Debug |-> NewBuffer]
    /\ TickInfo = NewTickState
    /\ RepProxy = [ServerRPC |-> [LastSerializedKeyframe |-> 0],
                   Autonomous |-> [LastSerializedKeyframe |-> 0],
                   Simulated |-> [SimulatedUpdateMode |-> "Interpolate"]]
    /\ HistoricBuffers = [valid |-> FALSE, Input |-> NewBuffer, Sync |-> NewBuffer]
    /\ calls = <<>>
    /\ rollback = NoRollback
    /\ lastOp = "none"
    /\ InputLog = <<>>
    /\ ParentSimulation = [s \in Sims |-> NULL]
    /\ DependentSimulations = [s \in Sims |-> <<>>]
    /\ bDependentSimulationNeedsReconcile = [s \in Sims |-> FALSE]
    /\ alive = [s \in Sims |-> TRUE]
    /\ linkCalls = NoLinkCalls
    /\ ServerRPCAccumulatedTimeSeconds = 0
    /\ ServerRPCThresholdTimeSeconds = DefaultServerRPCThreshold
    /\ pacerRun = NoPacerRun
    /\ dispatched = <<>>

\* A call made by Tick: the proxy or driver function called (or the log line
\* written), the role Tick was called with, and the keyframe the call is about
\* (for PreSimTick, PostSimTick and the finalize step: LastProcessedInputKeyframe
\* when the call was made).
Call(name, k) == [call |-> name, role |-> Parameters.Role, k |-> k]

\* #if NETSIM_MODEL_DEBUG ... #else return nullptr
GetLocalDebugBuffer == NETSIM_MODEL_DEBUG

GetHistoricBuffers(bCreate) ==
    IF NETSIM_MODEL_DEBUG
    THEN [HistoricBuffers EXCEPT !.valid = @ \/ bCreate]
    ELSE [HistoricBuffers EXCEPT !.valid = FALSE]

\* Replaces the element at the head of a buffer (a write through the pointer
\* GetWriteNext or FindElementByKeyframe returned).
SetHeadElement(b, v) == [b EXCEPT !.elems[Len(b.elems)] = v]

HeadElement(b) == b.elems[Len(b.elems)]

\* ---------------------------------------------------------------------------
\* InitializeForNetworkRole
\* ---------------------------------------------------------------------------

InitializeForNetworkRole ==
    /\ pc = "constructed"
    /\ \E InputBufferSize \in BufferSizes, SyncedBufferSize \in BufferSizes :
          /\ UNCHANGED RepProxy
          /\ Buffers' =
               [Input |-> GetWriteNext(SetBufferSize(Buffers.Input, InputBufferSize),
                                       EmptyInputCmd),
                Sync |-> SetBufferSize(Buffers.Sync, SyncedBufferSize),
                Aux |-> SetBufferSize(Buffers.Aux, MaxBufferSize),
                Debug |-> IF GetLocalDebugBuffer
                          THEN SetBufferSize(Buffers.Debug, DebugBufferSize)
                          ELSE Buffers.Debug]
          /\ HistoricBuffers' =
               LET h == GetHistoricBuffers(TRUE)
               IN IF h.valid
                  THEN [h EXCEPT !.Input = SetBufferSize(@, HistoricBufferSize),
                                 !.Sync = SetBufferSize(@, HistoricBufferSize)]
                  ELSE h
          /\ TickInfo' = InitSimulationTimeBuffer(TickInfo, SyncedBufferSize)
    /\ InputLog' = <<EmptyInputCmd>>
    /\ pc' = "idle"
    /\ lastOp' = "InitializeForNetworkRole"
    /\ UNCHANGED <<NETSIM_MODEL_DEBUG, Parameters, calls, rollback>>
    /\ UNCHANGED hostVars



\* ---------------------------------------------------------------------------
\* Replication proxies (TReplicator_Server / _Autonomous / _Simulated)
\* ---------------------------------------------------------------------------

RECURSIVE SumFrameDeltaTime(_, _, _)
\* Sum of the frame delta times of the commands the buffer holds in lo..hi.
SumFrameDeltaTime(b, lo, hi) ==
    IF lo > hi THEN 0
    ELSE (IF HasKeyframe(b, hi) THEN FindElementByKeyframe(b, hi).dt ELSE 0)
         + SumFrameDeltaTime(b, lo, hi - 1)

\* Whether PreSimTick of the role appends a command to the Input buffer.
\* The simulated proxy is modelled in its interpolating mode, in which it
\* blends toward the received state for presentation and leaves the buffers
\* and the tick state alone; an extrapolating one gives time and a command
\* the way the autonomous proxy does.
ProducesInput(r, proxy) == r = "ROLE_AutonomousProxy"

\* Server: the highest received keyframe may be processed, and the budget is
\* what the received commands ask for.
ServerRPC_PreSimTick(b, t) ==
    [t EXCEPT !.MaxAllowedInputKeyframe = GetHeadKeyframe(b.Input),
              !.TotalAllowedSimulationTime =
                  t.TotalProcessedSimulationTime
                  + SumFrameDeltaTime(b.Input, t.LastProcessedInputKeyframe + 1,
                                      GetHeadKeyframe(b.Input))]

\* Autonomous: the local delta is added to the budget and the command the
\* driver produced (already appended to b) may be processed.
Autonomous_PreSimTick(b, t, dt) ==
    [t EXCEPT !.MaxAllowedInputKeyframe = GetHeadKeyframe(b.Input),
              !.TotalAllowedSimulationTime = @ + dt]

Tick_PreSimTick ==
    /\ pc = "PreSimTick"
    /\ \/ /\ Parameters.Role = "ROLE_Authority"
          /\ TickInfo' = ServerRPC_PreSimTick(Buffers, TickInfo)
          /\ UNCHANGED <<Buffers, InputLog>>
       \/ /\ Parameters.Role = "ROLE_AutonomousProxy"
          /\ \E cmd \in InputCmds :
                /\ Buffers' = [Buffers EXCEPT !.Input = GetWriteNext(@, cmd)]
                /\ InputLog' = Append(InputLog, cmd)
          /\ TickInfo' = Autonomous_PreSimTick(Buffers', TickInfo,
                                               Parameters.LocalDeltaTimeSeconds)
       \/ /\ Parameters.Role = "ROLE_SimulatedProxy"
          /\ UNCHANGED <<Buffers, InputLog, TickInfo>>
    /\ calls' = Append(calls, Call("PreSimTick", TickInfo.LastProcessedInputKeyframe))
    /\ pc' = "Sync"
    /\ UNCHANGED <<NETSIM_MODEL_DEBUG, Parameters, RepProxy, HistoricBuffers,
                   rollback, lastOp>>
    /\ UNCHANGED hostVars


\* PostSimTick of the role's proxy: it works out what to serialize from the
\* buffers and changes neither the buffers nor the tick state.
PostSimTick(proxy, r, b, t) == proxy

\* ---------------------------------------------------------------------------
\* Tick
\* ---------------------------------------------------------------------------

\* Lines 79-111: stamp the previous debug entry, open the one of this frame.
Tick_Debug ==
    /\ pc = "idle"
    /\ GetLocalDebugBuffer => GetHeadKeyframe(Buffers.Debug) + 1 < MaxDebugFrames
    /\ \E r \in Roles, dt \in Deltas :
          /\ ProducesInput(r, RepProxy) => GetHeadKeyframe(Buffers.Input) < MaxKeyframe
          /\ Parameters' = [Role |-> r, LocalDeltaTimeSeconds |-> dt]
    /\ Buffers' =
         IF GetLocalDebugBuffer
         THEN LET stamped ==
                    IF HasKeyframe(Buffers.Debug, GetHeadKeyframe(Buffers.Debug))
                    THEN SetHeadElement(Buffers.Debug,
                           [HeadElement(Buffers.Debug) EXCEPT !.LastSentInputKeyframe =
                              IF Parameters'.Role = "ROLE_AutonomousProxy"
                              THEN RepProxy.ServerRPC.LastSerializedKeyframe
                              ELSE IF Parameters'.Role = "ROLE_Authority"
                              THEN RepProxy.Autonomous.LastSerializedKeyframe
                              ELSE @])
                    ELSE Buffers.Debug
                  DebugState ==
                    [NewDebugState EXCEPT
                       !.LocalDeltaTimeSeconds = Parameters'.LocalDeltaTimeSeconds,
                       !.LastReceivedInputKeyframe =
                          IF Parameters'.Role = "ROLE_AutonomousProxy"
                          THEN RepProxy.Autonomous.LastSerializedKeyframe
                          ELSE IF Parameters'.Role = "ROLE_Authority"
                          THEN RepProxy.ServerRPC.LastSerializedKeyframe
                          ELSE @]
              IN [Buffers EXCEPT !.Debug = GetWriteNext(stamped, DebugState)]
         ELSE Buffers
    /\ calls' = <<>>
    /\ pc' = "PreSimTick"
    /\ UNCHANGED <<NETSIM_MODEL_DEBUG, TickInfo, RepProxy, HistoricBuffers,
                   rollback, lastOp, InputLog>>
    /\ UNCHANGED hostVars


\* The condition of line 136 with >= in the place of >.
AdvanceConditionOrEqual(b) ==
    GetHeadKeyframe(b.Input) >= GetHeadKeyframe(b.Sync)

\* Line 136.
AdvanceCondition(b) == GetHeadKeyframe(b.Input) > GetHeadKeyframe(b.Sync)

\* Line 151.
SyncContinuityBroken(b, t) ==
    GetHeadKeyframe(b.Sync) # t.LastProcessedInputKeyframe

\* The warning without the first-run exception.
LogsWarningAlways(t) == TRUE

\* Line 153: the continuity warning is not logged on the first run.
LogsWarning(t) == t.LastProcessedInputKeyframe # 0

\* The re-seed with the next write producing LastProcessedInputKeyframe + 1.
ReseedSyncAtNextKeyframe(b, t) ==
    [b EXCEPT !.Sync =
        GetWriteNext(ResetNextHeadKeyframe(@, t.LastProcessedInputKeyframe + 1),
                     InitSyncStateValue)]

\* Lines 160-162: the Sync buffer restarts at LastProcessedInputKeyframe with
\* the driver's state.
ReseedSync(b, t) ==
    [b EXCEPT !.Sync =
        GetWriteNext(ResetNextHeadKeyframe(@, t.LastProcessedInputKeyframe),
                     InitSyncStateValue)]

\* Line 165.
ReseedTime(b, t) ==
    SetTotalProcessedSimulationTime(t, GetTotalProcessedSimulationTime(t),
                                    GetHeadKeyframe(b.Sync))

\* Tick_Sync with the PostSimTick dispatch placed ahead of the input processing.
Tick_SyncPostSimTickFirst ==
    /\ pc = "Sync"
    /\ IF AdvanceCondition(Buffers)
       THEN /\ pc' = "ProcessInput"
            /\ IF SyncContinuityBroken(Buffers, TickInfo)
               THEN /\ Buffers' = ReseedSync(Buffers, TickInfo)
                    /\ TickInfo' = ReseedTime(Buffers', TickInfo)
                    /\ calls' = calls
                         \o <<Call("PostSimTick", TickInfo.LastProcessedInputKeyframe)>>
                         \o (IF LogsWarning(TickInfo)
                             THEN <<Call("Warning", TickInfo.LastProcessedInputKeyframe)>>
                             ELSE <<>>)
                         \o <<Call("InitSyncState", TickInfo.LastProcessedInputKeyframe)>>
               ELSE /\ calls' = Append(calls, Call("PostSimTick",
                                                   TickInfo.LastProcessedInputKeyframe))
                    /\ UNCHANGED <<Buffers, TickInfo>>
       ELSE /\ pc' = "Finalize"
            /\ calls' = Append(calls, Call("PostSimTick",
                                           TickInfo.LastProcessedInputKeyframe))
            /\ UNCHANGED <<Buffers, TickInfo>>
    /\ UNCHANGED <<NETSIM_MODEL_DEBUG, Parameters, RepProxy, HistoricBuffers,
                   rollback, lastOp, InputLog>>
    /\ UNCHANGED hostVars


\* Lines 136-166.
Tick_Sync ==
    /\ pc = "Sync"
    /\ IF AdvanceCondition(Buffers)
       THEN /\ pc' = "ProcessInput"
            /\ IF SyncContinuityBroken(Buffers, TickInfo)
               THEN /\ Buffers' = ReseedSync(Buffers, TickInfo)
                    /\ TickInfo' = ReseedTime(Buffers', TickInfo)
                    /\ calls' = calls
                         \o (IF LogsWarning(TickInfo)
                             THEN <<Call("Warning", TickInfo.LastProcessedInputKeyframe)>>
                             ELSE <<>>)
                         \o <<Call("InitSyncState", TickInfo.LastProcessedInputKeyframe)>>
               ELSE UNCHANGED <<Buffers, TickInfo, calls>>
       ELSE /\ pc' = "PostSimTick"
            /\ UNCHANGED <<Buffers, TickInfo, calls>>
    /\ UNCHANGED <<NETSIM_MODEL_DEBUG, Parameters, RepProxy, HistoricBuffers,
                   rollback, lastOp, InputLog>>
    /\ UNCHANGED hostVars


\* Line 173.
NextKeyframe(t) == t.LastProcessedInputKeyframe + 1

\* The loop without the MaxAllowedInputKeyframe test.
WithinMaxAllowedAlways(t) == TRUE

\* Line 174.
WithinMaxAllowed(t) == NextKeyframe(t) <= t.MaxAllowedInputKeyframe

\* Line 179.
HasNextCmd(b, t) == HasKeyframe(b.Input, NextKeyframe(t))

\* The budget test against a remaining budget that is merely positive.
HasBudgetAnyLeft(b, t) == GetRemainingAllowedSimulationTime(t) > 0

\* The budget test with a strict comparison.
HasBudgetStrict(b, t) ==
    GetRemainingAllowedSimulationTime(t)
        > FindElementByKeyframe(b.Input, NextKeyframe(t)).dt

\* Line 182.
HasBudget(b, t) ==
    GetRemainingAllowedSimulationTime(t)
        >= FindElementByKeyframe(b.Input, NextKeyframe(t)).dt

\* Lines 190-192: the three checks of the update block.
ChecksHold(b, t) ==
    /\ HasKeyframe(b.Sync, t.LastProcessedInputKeyframe)
    /\ b.Sync.cap > 0
    /\ GetHeadKeyframe(b.Sync) + 1 = NextKeyframe(t)

\* Update fed the oldest retained sync state instead of the previous one.
NextSyncStateFromTail(b, t) ==
    LET NextCmd == FindElementByKeyframe(b.Input, NextKeyframe(t))
        PrevSyncState == FindElementByKeyframe(b.Sync, GetTailKeyframe(b.Sync))
    IN Update(NextCmd.dt, NextCmd, PrevSyncState, DefaultAuxState)

\* The state worked out from the time left in the budget of this tick
\* instead of the command's own frame delta time.
NextSyncStateFromBudget(b, t) ==
    LET NextCmd == FindElementByKeyframe(b.Input, NextKeyframe(t))
        PrevSyncState == FindElementByKeyframe(b.Sync, t.LastProcessedInputKeyframe)
    IN Update(GetRemainingAllowedSimulationTime(t), NextCmd, PrevSyncState,
              DefaultAuxState)

\* Lines 187-200: the sync state written for the next keyframe.
NextSyncState(b, t) ==
    LET NextCmd == FindElementByKeyframe(b.Input, NextKeyframe(t))
        PrevSyncState == FindElementByKeyframe(b.Sync, t.LastProcessedInputKeyframe)
    IN Update(NextCmd.dt, NextCmd, PrevSyncState, DefaultAuxState)

\* Line 203 left out: the processed time advances, the keyframe does not.
AdvanceTickInfoKeepsKeyframe(b, t) ==
    IncrementTotalProcessedSimulationTime(
        t, FindElementByKeyframe(b.Input, NextKeyframe(t)).dt, NextKeyframe(t))

\* Line 202 fed the frame delta time of the newest command.
AdvanceTickInfoHeadDelta(b, t) ==
    [IncrementTotalProcessedSimulationTime(
         t, HeadElement(b.Input).dt, NextKeyframe(t))
     EXCEPT !.LastProcessedInputKeyframe = NextKeyframe(t)]

\* Lines 202-203.
AdvanceTickInfo(b, t) ==
    [IncrementTotalProcessedSimulationTime(
         t, FindElementByKeyframe(b.Input, NextKeyframe(t)).dt, NextKeyframe(t))
     EXCEPT !.LastProcessedInputKeyframe = NextKeyframe(t)]

\* The loop treating a missing command as a hole to step over.
Tick_ProcessInputSkipsHole ==
    /\ pc = "ProcessInput"
    /\ IF ~WithinMaxAllowed(TickInfo)
       THEN /\ pc' = "PostSimTick"
            /\ UNCHANGED <<Buffers, TickInfo, calls>>
       ELSE IF ~HasNextCmd(Buffers, TickInfo)
       THEN /\ pc' = "ProcessInput"
            /\ TickInfo' = [TickInfo EXCEPT
                               !.LastProcessedInputKeyframe = NextKeyframe(TickInfo)]
            /\ UNCHANGED <<Buffers, calls>>
       ELSE IF ~HasBudget(Buffers, TickInfo)
       THEN /\ pc' = "PostSimTick"
            /\ UNCHANGED <<Buffers, TickInfo, calls>>
       ELSE IF ~ChecksHold(Buffers, TickInfo)
       THEN /\ pc' = "CheckFailed"
            /\ UNCHANGED <<Buffers, TickInfo, calls>>
       ELSE /\ pc' = "ProcessInput"
            /\ Buffers' =
                 [Buffers EXCEPT
                    !.Sync = GetWriteNext(@, NextSyncState(Buffers, TickInfo)),
                    !.Debug = IF GetLocalDebugBuffer
                              THEN SetHeadElement(@,
                                     [HeadElement(@) EXCEPT !.ProcessedKeyframes =
                                         @ \cup {NextKeyframe(TickInfo)}])
                              ELSE @]
            /\ TickInfo' = AdvanceTickInfo(Buffers, TickInfo)
            /\ calls' = Append(calls, Call("Update", NextKeyframe(TickInfo)))
    /\ UNCHANGED <<NETSIM_MODEL_DEBUG, Parameters, RepProxy, HistoricBuffers,
                   rollback, lastOp, InputLog>>
    /\ UNCHANGED hostVars


\* Lines 171-214, one pass of the while loop.
Tick_ProcessInput ==
    /\ pc = "ProcessInput"
    /\ IF ~WithinMaxAllowed(TickInfo)
       THEN /\ pc' = "PostSimTick"
            /\ UNCHANGED <<Buffers, TickInfo, calls>>
       ELSE IF ~HasNextCmd(Buffers, TickInfo)
       THEN /\ pc' = "PostSimTick"
            /\ UNCHANGED <<Buffers, TickInfo, calls>>
       ELSE IF ~HasBudget(Buffers, TickInfo)
       THEN /\ pc' = "PostSimTick"
            /\ UNCHANGED <<Buffers, TickInfo, calls>>
       ELSE IF ~ChecksHold(Buffers, TickInfo)
       THEN /\ pc' = "CheckFailed"
            /\ UNCHANGED <<Buffers, TickInfo, calls>>
       ELSE /\ pc' = "ProcessInput"
            /\ Buffers' =
                 [Buffers EXCEPT
                    !.Sync = GetWriteNext(@, NextSyncState(Buffers, TickInfo)),
                    !.Debug = IF GetLocalDebugBuffer
                              THEN SetHeadElement(@,
                                     [HeadElement(@) EXCEPT !.ProcessedKeyframes =
                                         @ \cup {NextKeyframe(TickInfo)}])
                              ELSE @]
            /\ TickInfo' = AdvanceTickInfo(Buffers, TickInfo)
            /\ calls' = Append(calls, Call("Update", NextKeyframe(TickInfo)))
    /\ UNCHANGED <<NETSIM_MODEL_DEBUG, Parameters, RepProxy, HistoricBuffers,
                   rollback, lastOp, InputLog>>
    /\ UNCHANGED hostVars


\* Lines 221-234.
Tick_PostSimTick ==
    /\ pc = "PostSimTick"
    /\ RepProxy' = PostSimTick(RepProxy, Parameters.Role, Buffers, TickInfo)
    /\ calls' = Append(calls, Call("PostSimTick", TickInfo.LastProcessedInputKeyframe))
    /\ pc' = "Finalize"
    /\ UNCHANGED <<NETSIM_MODEL_DEBUG, Parameters, Buffers, TickInfo,
                   HistoricBuffers, rollback, lastOp, InputLog>>
    /\ UNCHANGED hostVars


\* Tick_Finalize with the assignment of line 244 turned round: the tick
\* state takes the keyframe the debug entry holds.
Tick_FinalizeReadsDebugState ==
    /\ pc = "Finalize"
    /\ UNCHANGED Buffers
    /\ TickInfo' =
         IF GetLocalDebugBuffer
         THEN [TickInfo EXCEPT !.LastProcessedInputKeyframe =
                                  HeadElement(Buffers.Debug).LastProcessedKeyframe]
         ELSE TickInfo
    /\ HistoricBuffers' =
         LET h == GetHistoricBuffers(FALSE)
         IN IF h.valid
            THEN [h EXCEPT !.Input = CopyAndMerge(@, Buffers.Input),
                           !.Sync = CopyAndMerge(@, Buffers.Sync)]
            ELSE h
    /\ calls' = Append(calls, Call("Finalize", TickInfo.LastProcessedInputKeyframe))
    /\ pc' = "idle"
    /\ lastOp' = "Tick"
    /\ Parameters' = NoParameters
    /\ rollback' = NoRollback
    /\ UNCHANGED <<NETSIM_MODEL_DEBUG, RepProxy, InputLog>>
    /\ UNCHANGED hostVars

\* Lines 241-254: finish the debug entry, merge into the historic buffers.
Tick_Finalize ==
    /\ pc = "Finalize"
    /\ Buffers' =
         IF GetLocalDebugBuffer
         THEN [Buffers EXCEPT !.Debug =
                 SetHeadElement(@,
                   [HeadElement(@) EXCEPT
                      !.LastProcessedKeyframe = TickInfo.LastProcessedInputKeyframe,
                      !.HeadKeyframe = GetHeadKeyframe(Buffers.Input),
                      !.RemainingAllowedSimulationTimeSeconds =
                          GetRemainingAllowedSimulationTime(TickInfo)])]
         ELSE Buffers
    /\ HistoricBuffers' =
         LET h == GetHistoricBuffers(FALSE)
         IN IF h.valid
            THEN [h EXCEPT !.Input = CopyAndMerge(@, Buffers.Input),
                           !.Sync = CopyAndMerge(@, Buffers.Sync)]
            ELSE h
    /\ calls' = Append(calls, Call("Finalize", TickInfo.LastProcessedInputKeyframe))
    /\ pc' = "idle"
    /\ lastOp' = "Tick"
    /\ Parameters' = NoParameters
    /\ rollback' = NoRollback
    /\ UNCHANGED <<NETSIM_MODEL_DEBUG, TickInfo, RepProxy, InputLog>>
    /\ UNCHANGED hostVars



\* ---------------------------------------------------------------------------
\* Reconcile
\* ---------------------------------------------------------------------------

RECURSIVE SumLog(_, _)
\* Simulation time after the commands 1..k of the log were processed.
SumLog(log, k) == IF k <= 0 THEN 0 ELSE log[k + 1].dt + SumLog(log, k - 1)

\* Autonomous rollback: the Sync buffer is rewound so that its head is K and
\* holds the authoritative state, and the tick state follows.
Autonomous_Rollback_Buffers(b, K, auth) ==
    [b EXCEPT !.Sync = GetWriteNext(ResetNextHeadKeyframe(@, K), auth)]

Autonomous_Rollback_TickInfo(t, K, time) ==
    [SetTotalProcessedSimulationTime(t, time, K)
     EXCEPT !.LastProcessedInputKeyframe = K]

\* Whether the authoritative state of keyframe K makes the predictor roll back:
\* it differs from the local one, or the local one is no longer retained.
Autonomous_NeedsRollback(b, K, auth) ==
    ~HasKeyframe(b.Sync, K) \/ FindElementByKeyframe(b.Sync, K) # auth

\* Lines 257-278.
Reconcile ==
    /\ pc = "idle"
    /\ lastOp \notin {"Reconcile", "Rollback"}
    /\ \E r \in Roles :
       \/ /\ r = "ROLE_Authority"
          /\ lastOp' = "Reconcile"
          /\ UNCHANGED <<Buffers, TickInfo, RepProxy, rollback>>
       \/ /\ r = "ROLE_AutonomousProxy"
          /\ \E K \in 0..Min2(GetHeadKeyframe(Buffers.Sync),
                               GetHeadKeyframe(Buffers.Input)),
                auth \in SyncValues :
                /\ UNCHANGED RepProxy
                /\ IF Autonomous_NeedsRollback(Buffers, K, auth)
                   THEN /\ Buffers' = Autonomous_Rollback_Buffers(Buffers, K, auth)
                        /\ TickInfo' = Autonomous_Rollback_TickInfo(
                                           TickInfo, K, SumLog(InputLog, K))
                        /\ rollback' = [K |-> K,
                                          H |-> GetHeadKeyframe(Buffers.Input),
                                          T |-> GetTailKeyframe(Buffers.Input),
                                          A |-> auth]
                        /\ lastOp' = "Rollback"
                   ELSE /\ lastOp' = "Reconcile"
                        /\ UNCHANGED <<Buffers, TickInfo, rollback>>
       \/ /\ r = "ROLE_SimulatedProxy"
          /\ lastOp' = "Reconcile"
          /\ UNCHANGED <<Buffers, TickInfo, RepProxy, rollback>>
    /\ calls' = <<>>
    /\ UNCHANGED <<pc, NETSIM_MODEL_DEBUG, Parameters, HistoricBuffers, InputLog>>
    /\ UNCHANGED hostVars


\* ---------------------------------------------------------------------------
\* NetSerializeProxy
\* ---------------------------------------------------------------------------

\* Lines 308-310 on the authority: a command sent by the client is received
\* and appended to the Input buffer.
NetSerializeProxy_ServerRPC ==
    /\ pc = "idle"
    /\ GetHeadKeyframe(Buffers.Input) < MaxKeyframe
    /\ \E cmd \in InputCmds :
          /\ Buffers' = [Buffers EXCEPT !.Input = GetWriteNext(@, cmd)]
          /\ InputLog' = Append(InputLog, cmd)
    /\ RepProxy' = [RepProxy EXCEPT !.ServerRPC.LastSerializedKeyframe =
                                        GetHeadKeyframe(Buffers'.Input)]
    /\ lastOp' = "NetSerializeProxy"
    /\ calls' = <<>>
    /\ UNCHANGED <<pc, NETSIM_MODEL_DEBUG, Parameters, TickInfo,
                   HistoricBuffers, rollback>>
    /\ UNCHANGED hostVars


\* ---------------------------------------------------------------------------
\* Specification
\* ---------------------------------------------------------------------------

Next ==
    \/ InitializeForNetworkRole
    \/ Tick_Debug
    \/ Tick_PreSimTick
    \/ Tick_Sync
    \/ Tick_ProcessInput
    \/ Tick_PostSimTick
    \/ Tick_Finalize
    \/ Reconcile
    \/ NetSerializeProxy_ServerRPC

Spec == Init /\ [][Next]_vars

\* Lines 75-255: a step of Tick.
Tick ==
    \/ Tick_Debug
    \/ Tick_PreSimTick
    \/ Tick_Sync
    \/ Tick_ProcessInput
    \/ Tick_PostSimTick
    \/ Tick_Finalize

\* The host's frame loop keeps calling Tick, and a Tick that was called runs
\* to its end.
LiveSpec == Init /\ [][Next]_vars /\ WF_vars(Tick)

\* The model without corrections from a server: the role is set up, commands
\* arrive and Tick runs, and nothing but Tick writes the Sync buffer.
NextDet ==
    \/ InitializeForNetworkRole
    \/ Tick_Debug
    \/ Tick_PreSimTick
    \/ Tick_Sync
    \/ Tick_ProcessInput
    \/ Tick_PostSimTick
    \/ Tick_Finalize
    \/ NetSerializeProxy_ServerRPC

SpecDet == Init /\ [][NextDet]_vars

\* ---------------------------------------------------------------------------
\* Parent and dependent simulations
\* ---------------------------------------------------------------------------

\* The link members of all the simulations, as the calls below pass them on:
\* RepProxy_Simulated.ParentSimulation, RepProxy_Autonomous.DependentSimulations
\* and RepProxy_Autonomous.bDependentSimulationNeedsReconcile of each, which
\* simulations are alive, whether a check() failed and whether a member of a
\* destroyed simulation was used.
Links ==
    [parent |-> ParentSimulation,
     deps |-> DependentSimulations,
     flag |-> bDependentSimulationNeedsReconcile,
     alive |-> alive,
     checkFailed |-> FALSE,
     dangling |-> FALSE]

\* TArray::Contains.
Contains(list, x) == \E i \in DOMAIN list : list[i] = x

\* TArray::Remove: every element equal to x is taken out, the order is kept.
RECURSIVE Remove(_, _)
Remove(list, x) ==
    IF list = <<>> THEN <<>>
    ELSE IF Head(list) = x THEN Remove(Tail(list), x)
    ELSE <<Head(list)>> \o Remove(Tail(list), x)

\* A member function is called on simulation x.
Called(L, x) == IF L.alive[x] THEN L ELSE [L EXCEPT !.dangling = TRUE]

\* Lines 390-393.
NotifyDependentSimNeedsReconcile(L, p) == [L EXCEPT !.flag[p] = TRUE]

\* RemoveDependentSimulation leaving the list as it is.
RemoveDependentSimulationKeepsList(L, p, x) == Called(L, p)

\* Lines 385-388, called on p.
RemoveDependentSimulation(L, p, x) ==
    [Called(L, p) EXCEPT !.deps[p] = Remove(@, x)]

\* Lines 378-383, called on p. After a failed check() nothing more is done.
AddDepdentSimulation(L, p, x) ==
    IF L.checkFailed THEN L
    ELSE IF Contains(L.deps[p], x) THEN [Called(L, p) EXCEPT !.checkFailed = TRUE]
    ELSE NotifyDependentSimNeedsReconcile(
             [Called(L, p) EXCEPT !.deps[p] = Append(@, x)], p)

\* SetParentSimulation without lines 361-364: the old parent keeps the
\* simulation in its list.
SetParentSimulationKeepsOldLink(L, x, t) ==
    LET L2 == [Called(L, x) EXCEPT !.parent[x] = t]
    IN IF t # NULL THEN AddDepdentSimulation(L2, t, x) ELSE L2

\* Lines 359-371, called on x with the new parent t (or NULL).
SetParentSimulation(L, x, t) ==
    LET L0 == Called(L, x)
        L1 == IF L0.parent[x] # NULL
              THEN RemoveDependentSimulation(L0, L0.parent[x], x)
              ELSE L0
        L2 == [L1 EXCEPT !.parent[x] = t]
    IN IF L.checkFailed THEN L
       ELSE IF t # NULL THEN AddDepdentSimulation(L2, t, x) ELSE L2

\* Lines 408-411: SetParentSimulation(nullptr) on each element of the list.
RECURSIVE ClearEach(_, _)
ClearEach(L, list) ==
    IF list = <<>> THEN L
    ELSE ClearEach(SetParentSimulation(L, Head(list), NULL), Tail(list))

\* ClearAllDependentSimulations without the loop of lines 408-411: the list
\* is emptied and the dependents keep their parent.
ClearAllDependentSimulationsListOnly(L, p) ==
    [Called(L, p) EXCEPT !.deps[p] = <<>>]

\* Lines 405-412, called on p: MoveTemp leaves the member list empty.
ClearAllDependentSimulations(L, p) ==
    ClearEach([Called(L, p) EXCEPT !.deps[p] = <<>>], L.deps[p])

\* Lines 69-73.
Destructor(L, x) ==
    [ClearAllDependentSimulations(SetParentSimulation(L, x, NULL), x)
     EXCEPT !.alive[x] = FALSE]

\* A call on the links returned with the link state R. A failed check() stops
\* the program. The use of a destroyed simulation is undefined behaviour:
\* either the program stops, or the call goes through on the memory the
\* simulation left behind.
LinksReturn(R, direct, again, destroyed) ==
    /\ linkCalls.halt = "none"
    /\ \/ /\ R.checkFailed
          /\ linkCalls' = [linkCalls EXCEPT !.halt = "check",
                                            !.direct = @ \/ direct,
                                            !.directCalls =
                                                IF direct THEN @ + 1 ELSE @]
          /\ UNCHANGED <<ParentSimulation, DependentSimulations,
                         bDependentSimulationNeedsReconcile, alive>>
       \/ /\ ~R.checkFailed
          /\ R.dangling
          /\ linkCalls' = [linkCalls EXCEPT !.halt = "crash",
                                            !.direct = @ \/ direct,
                                            !.directCalls =
                                                IF direct THEN @ + 1 ELSE @]
          /\ UNCHANGED <<ParentSimulation, DependentSimulations,
                         bDependentSimulationNeedsReconcile, alive>>
       \/ /\ ~R.checkFailed
          /\ ParentSimulation' = R.parent
          /\ DependentSimulations' = R.deps
          /\ bDependentSimulationNeedsReconcile' = R.flag
          /\ alive' = R.alive
          /\ linkCalls' = [linkCalls EXCEPT !.direct = @ \/ direct,
                                            !.directCalls =
                                                IF direct THEN @ + 1 ELSE @,
                                            !.again = again,
                                            !.destroyed = destroyed]
    /\ UNCHANGED <<simVars, NETSIM_MODEL_DEBUG, pacerVars, dispatched>>

\* The host sets or clears the parent of a simulation.
Call_SetParentSimulation ==
    \E x \in Sims, t \in Sims \cup {NULL} :
        /\ alive[x]
        /\ t # NULL => alive[t]
        /\ LinksReturn(SetParentSimulation(Links, x, t), FALSE,
                       t # NULL /\ ParentSimulation[x] = t,
                       linkCalls.destroyed)

\* The host calls one of the two list functions of the interface itself.
Call_AddDepdentSimulation ==
    \E p \in Sims, x \in Sims :
        /\ alive[p] /\ alive[x]
        /\ linkCalls.directCalls < MaxDirectCalls
        /\ LinksReturn(AddDepdentSimulation(Links, p, x), TRUE, FALSE,
                       linkCalls.destroyed)

Call_RemoveDependentSimulation ==
    \E p \in Sims, x \in Sims :
        /\ alive[p] /\ alive[x]
        /\ linkCalls.directCalls < MaxDirectCalls
        /\ LinksReturn(RemoveDependentSimulation(Links, p, x), TRUE, FALSE,
                       linkCalls.destroyed)

Call_ClearAllDependentSimulations ==
    \E p \in Sims :
        /\ alive[p]
        /\ LinksReturn(ClearAllDependentSimulations(Links, p), FALSE, FALSE,
                       linkCalls.destroyed)

\* A simulation is destroyed.
Call_Destructor ==
    \E x \in Sims :
        /\ alive[x]
        /\ LinksReturn(Destructor(Links, x), FALSE, FALSE,
                       [sim |-> x,
                        hadParent |-> ParentSimulation[x] # NULL,
                        dependents |-> Len(DependentSimulations[x])])

NextLinks ==
    \/ Call_SetParentSimulation
    \/ Call_AddDepdentSimulation
    \/ Call_RemoveDependentSimulation
    \/ Call_ClearAllDependentSimulations
    \/ Call_Destructor

SpecLinks == Init /\ [][NextLinks]_vars

\* ---------------------------------------------------------------------------
\* Dispatch on the replication target
\* ---------------------------------------------------------------------------

\* enum class EReplicationProxyTarget, and a value cast from an integer that
\* is none of its enumerators.
EReplicationProxyTarget ==
    {"ServerRPC", "AutonomousProxy", "SimulatedProxy", "Replay", "Debug"}
UnknownTarget == "Unknown"

\* What a switch statement did: the proxies whose function was called and
\* whether checkf(false) was reached.
Dispatch(proxies, checkf) == [proxies |-> proxies, checkf |-> checkf]

\* The switch of NetSerializeProxy with the break of the Replay case left
\* out: the Replay target goes on into the Debug case.
NetSerializeProxyNoBreak(Target) ==
    CASE Target = "ServerRPC" -> Dispatch({"RepProxy_ServerRPC"}, FALSE)
      [] Target = "AutonomousProxy" -> Dispatch({"RepProxy_Autonomous"}, FALSE)
      [] Target = "SimulatedProxy" -> Dispatch({"RepProxy_Simulated"}, FALSE)
      [] Target = "Replay" ->
            IF NETSIM_MODEL_DEBUG
            THEN Dispatch({"RepProxy_Replay", "RepProxy_Debug"}, FALSE)
            ELSE Dispatch({"RepProxy_Replay"}, TRUE)
      [] Target = "Debug" ->
            IF NETSIM_MODEL_DEBUG
            THEN Dispatch({"RepProxy_Debug"}, FALSE)
            ELSE Dispatch({}, TRUE)
      [] OTHER -> Dispatch({}, TRUE)

\* Lines 306-327. Without NETSIM_MODEL_DEBUG the Debug case is empty and
\* falls through to the default.
NetSerializeProxy(Target) ==
    CASE Target = "ServerRPC" -> Dispatch({"RepProxy_ServerRPC"}, FALSE)
      [] Target = "AutonomousProxy" -> Dispatch({"RepProxy_Autonomous"}, FALSE)
      [] Target = "SimulatedProxy" -> Dispatch({"RepProxy_Simulated"}, FALSE)
      [] Target = "Replay" -> Dispatch({"RepProxy_Replay"}, FALSE)
      [] Target = "Debug" ->
            IF NETSIM_MODEL_DEBUG
            THEN Dispatch({"RepProxy_Debug"}, FALSE)
            ELSE Dispatch({}, TRUE)
      [] OTHER -> Dispatch({}, TRUE)

\* Lines 332-349: every case returns.
GetProxyDirtyCount(Target) ==
    CASE Target = "ServerRPC" -> Dispatch({"RepProxy_ServerRPC"}, FALSE)
      [] Target = "AutonomousProxy" -> Dispatch({"RepProxy_Autonomous"}, FALSE)
      [] Target = "SimulatedProxy" -> Dispatch({"RepProxy_Simulated"}, FALSE)
      [] Target = "Replay" -> Dispatch({"RepProxy_Replay"}, FALSE)
      [] Target = "Debug" ->
            IF NETSIM_MODEL_DEBUG
            THEN Dispatch({"RepProxy_Debug"}, FALSE)
            ELSE Dispatch({}, TRUE)
      [] OTHER -> Dispatch({}, TRUE)

\* A failed checkf stops the program.
DispatchHalted ==
    \E i \in DOMAIN dispatched : dispatched[i].checkf

\* The two functions are called with any target; which proxy function ran
\* is recorded (what the proxy then does with the buffers is the proxy's).
Call_NetSerializeProxy ==
    /\ Len(dispatched) < MaxDispatched
    /\ ~DispatchHalted
    /\ \E Target \in EReplicationProxyTarget \cup {UnknownTarget} :
          dispatched' = Append(dispatched,
              [fn |-> "NetSerialize", Target |-> Target,
               proxies |-> NetSerializeProxy(Target).proxies,
               checkf |-> NetSerializeProxy(Target).checkf])
    /\ UNCHANGED <<simVars, NETSIM_MODEL_DEBUG, linkVars, pacerVars>>

Call_GetProxyDirtyCount ==
    /\ Len(dispatched) < MaxDispatched
    /\ ~DispatchHalted
    /\ \E Target \in EReplicationProxyTarget \cup {UnknownTarget} :
          dispatched' = Append(dispatched,
              [fn |-> "GetProxyDirtyCount", Target |-> Target,
               proxies |-> GetProxyDirtyCount(Target).proxies,
               checkf |-> GetProxyDirtyCount(Target).checkf])
    /\ UNCHANGED <<simVars, NETSIM_MODEL_DEBUG, linkVars, pacerVars>>

NextDispatch ==
    \/ Call_NetSerializeProxy
    \/ Call_GetProxyDirtyCount

SpecDispatch == Init /\ [][NextDispatch]_vars

\* ---------------------------------------------------------------------------
\* Server RPC pacing
\* ---------------------------------------------------------------------------

\* Line 433: the threshold is the period of the desired frequency.
SetDesiredServerRPCSendFrequency ==
    /\ \E DesiredHz \in DesiredHzs :
          ServerRPCThresholdTimeSeconds' = TimeUnitsPerSecond \div DesiredHz
    /\ pacerRun' = [pacerRun EXCEPT !.calls = 0, !.T = 0, !.sent = 0,
                                    !.capped = TRUE,
                                    !.fromZero = ServerRPCAccumulatedTimeSeconds = 0]
    /\ UNCHANGED ServerRPCAccumulatedTimeSeconds
    /\ UNCHANGED <<simVars, NETSIM_MODEL_DEBUG, linkVars, dispatched>>

\* Line 437.
CappedDeltaTimeSeconds(DeltaTimeSeconds, Threshold) ==
    Min2(DeltaTimeSeconds, Threshold)

\* Line 438: the delta time itself is added, CappedDeltaTimeSeconds is not
\* used.
Accumulate(Accumulated, DeltaTimeSeconds, Threshold) ==
    Accumulated + DeltaTimeSeconds

\* Line 439.
ReachedThreshold(Accumulated, Threshold) == Accumulated >= Threshold

\* The accumulator kept as it is when the call returns true.
ConsumeThresholdKeepsTime(Accumulated, Threshold) == Accumulated

\* Line 441.
ConsumeThreshold(Accumulated, Threshold) == Accumulated - Threshold

\* Lines 434-446.
ShouldSendServerRPC ==
    /\ pacerRun.total < MaxPacerCalls
    /\ \E DeltaTimeSeconds \in 0..MaxPacerDelta :
          LET Threshold == ServerRPCThresholdTimeSeconds
              Accumulated == Accumulate(ServerRPCAccumulatedTimeSeconds,
                                        DeltaTimeSeconds, Threshold)
              Send == ReachedThreshold(Accumulated, Threshold)
          IN /\ ServerRPCAccumulatedTimeSeconds' =
                    IF Send THEN ConsumeThreshold(Accumulated, Threshold)
                    ELSE Accumulated
             /\ pacerRun' =
                    [pacerRun EXCEPT
                       !.calls = @ + 1,
                       !.total = @ + 1,
                       !.T = @ + DeltaTimeSeconds,
                       !.sent = IF Send THEN @ + 1 ELSE @,
                       !.capped = @ /\ DeltaTimeSeconds <= Threshold]
    /\ UNCHANGED ServerRPCThresholdTimeSeconds
    /\ UNCHANGED <<simVars, NETSIM_MODEL_DEBUG, linkVars, dispatched>>

NextPacer ==
    \/ SetDesiredServerRPCSendFrequency
    \/ ShouldSendServerRPC

SpecPacer == Init /\ [][NextPacer]_vars

\* ---------------------------------------------------------------------------
\* A fresh run
\* ---------------------------------------------------------------------------

\* The sync state of keyframe H of a run that starts from the state start at
\* keyframe K and is given the commands K+1..H of the log one after the
\* other (the command of keyframe k is log[k + 1]).
RECURSIVE FreshRun(_, _, _, _)
FreshRun(start, log, K, H) ==
    IF H <= K THEN start
    ELSE Update(log[H + 1].dt, log[H + 1], FreshRun(start, log, K, H - 1),
                DefaultAuxState)

\* ---------------------------------------------------------------------------
\* The model built without NETSIM_MODEL_DEBUG
\* ---------------------------------------------------------------------------

\* What a model whose debug accessors return nullptr (lines 470-475) has of
\* the state: no Debug buffer and no historic buffers. Parameters, the caps
\* of the buffers, InputLog and rollback hold the inputs of the calls made.
Sim ==
    [pc |-> pc,
     Parameters |-> Parameters,
     Input |-> Buffers.Input,
     Sync |-> Buffers.Sync,
     TickInfo |-> TickInfo,
     InputLog |-> InputLog,
     rollback |-> rollback,
     lastOp |-> lastOp]

\* Its buffers, as the operators on buffers take them.
SimBuffers(S) == [Input |-> S.Input, Sync |-> S.Sync]

\* Lines 280-302 with the blocks under GetLocalDebugBuffer() and
\* GetHistoricBuffers(true) skipped: the states the call can return with.
NoDebug_InitializeForNetworkRole(S) ==
    IF S.pc # "constructed" THEN {}
    ELSE {[S EXCEPT !.Input = GetWriteNext(SetBufferSize(@, InputBufferSize),
                                           EmptyInputCmd),
                    !.Sync = SetBufferSize(@, SyncedBufferSize),
                    !.TickInfo = InitSimulationTimeBuffer(@, SyncedBufferSize),
                    !.InputLog = <<EmptyInputCmd>>,
                    !.pc = "idle",
                    !.lastOp = "InitializeForNetworkRole"] :
             InputBufferSize \in BufferSizes, SyncedBufferSize \in BufferSizes}

\* Lines 79-111 with both debug blocks skipped: Tick is entered.
NoDebug_Tick_Debug(S) ==
    IF S.pc # "idle" THEN {}
    ELSE {[S EXCEPT !.Parameters = [Role |-> r, LocalDeltaTimeSeconds |-> dt],
                    !.pc = "PreSimTick"] :
             r \in {q \in Roles : ProducesInput(q, RepProxy)
                                     => GetHeadKeyframe(S.Input) < MaxKeyframe},
             dt \in Deltas}

\* Lines 117-130.
NoDebug_Tick_PreSimTick(S) ==
    IF S.pc # "PreSimTick" THEN {}
    ELSE IF S.Parameters.Role = "ROLE_Authority"
    THEN {[S EXCEPT !.TickInfo = ServerRPC_PreSimTick(SimBuffers(S), @),
                    !.pc = "Sync"]}
    ELSE IF S.Parameters.Role = "ROLE_AutonomousProxy"
    THEN {[S EXCEPT !.Input = GetWriteNext(@, cmd),
                    !.InputLog = Append(@, cmd),
                    !.TickInfo = Autonomous_PreSimTick(
                                     [SimBuffers(S) EXCEPT
                                         !.Input = GetWriteNext(@, cmd)],
                                     @, S.Parameters.LocalDeltaTimeSeconds),
                    !.pc = "Sync"] : cmd \in InputCmds}
    ELSE {[S EXCEPT !.pc = "Sync"]}

\* Lines 136-166.
NoDebug_Tick_Sync(S) ==
    IF S.pc # "Sync" THEN {}
    ELSE IF ~AdvanceCondition(SimBuffers(S))
    THEN {[S EXCEPT !.pc = "PostSimTick"]}
    ELSE IF SyncContinuityBroken(SimBuffers(S), S.TickInfo)
    THEN {[S EXCEPT !.Sync = ReseedSync(SimBuffers(S), S.TickInfo).Sync,
                    !.TickInfo = ReseedTime(ReseedSync(SimBuffers(S), S.TickInfo), @),
                    !.pc = "ProcessInput"]}
    ELSE {[S EXCEPT !.pc = "ProcessInput"]}

\* Lines 171-214 with DebugState null at line 194.
NoDebug_Tick_ProcessInput(S) ==
    IF S.pc # "ProcessInput" THEN {}
    ELSE IF \/ ~WithinMaxAllowed(S.TickInfo)
            \/ ~HasNextCmd(SimBuffers(S), S.TickInfo)
            \/ ~HasBudget(SimBuffers(S), S.TickInfo)
    THEN {[S EXCEPT !.pc = "PostSimTick"]}
    ELSE IF ~ChecksHold(SimBuffers(S), S.TickInfo)
    THEN {[S EXCEPT !.pc = "CheckFailed"]}
    ELSE {[S EXCEPT !.Sync = GetWriteNext(@, NextSyncState(SimBuffers(S), S.TickInfo)),
                    !.TickInfo = AdvanceTickInfo(SimBuffers(S), @)]}

\* Lines 221-234.
NoDebug_Tick_PostSimTick(S) ==
    IF S.pc # "PostSimTick" THEN {} ELSE {[S EXCEPT !.pc = "Finalize"]}

\* Lines 241-254 with DebugState and GetHistoricBuffers() null: Tick returns.
NoDebug_Tick_Finalize(S) ==
    IF S.pc # "Finalize" THEN {}
    ELSE {[S EXCEPT !.pc = "idle", !.lastOp = "Tick", !.Parameters = NoParameters,
                    !.rollback = NoRollback]}

\* Lines 257-278.
NoDebug_Reconcile(S) ==
    IF S.pc # "idle" \/ S.lastOp \in {"Reconcile", "Rollback"} THEN {}
    ELSE {[S EXCEPT !.lastOp = "Reconcile"]}
         \cup
         {[S EXCEPT !.Sync = Autonomous_Rollback_Buffers(SimBuffers(S),
                                                        x[1], x[2]).Sync,
                    !.TickInfo = Autonomous_Rollback_TickInfo(
                                     @, x[1], SumLog(S.InputLog, x[1])),
                    !.rollback = [K |-> x[1],
                                  H |-> GetHeadKeyframe(S.Input),
                                  T |-> GetTailKeyframe(S.Input),
                                  A |-> x[2]],
                    !.lastOp = "Rollback"] :
             x \in {y \in (0..Min2(GetHeadKeyframe(S.Sync), GetHeadKeyframe(S.Input)))
                            \X SyncValues :
                       Autonomous_NeedsRollback(SimBuffers(S), y[1], y[2])}}

\* Lines 304-310.
NoDebug_NetSerializeProxy_ServerRPC(S) ==
    IF S.pc # "idle" \/ GetHeadKeyframe(S.Input) >= MaxKeyframe THEN {}
    ELSE {[S EXCEPT !.Input = GetWriteNext(@, cmd),
                    !.InputLog = Append(@, cmd),
                    !.lastOp = "NetSerializeProxy"] : cmd \in InputCmds}

\* The states one step of such a model leads to from S.
NoDebug_Next(S) ==
    NoDebug_InitializeForNetworkRole(S)
    \cup NoDebug_Tick_Debug(S)
    \cup NoDebug_Tick_PreSimTick(S)
    \cup NoDebug_Tick_Sync(S)
    \cup NoDebug_Tick_ProcessInput(S)
    \cup NoDebug_Tick_PostSimTick(S)
    \cup NoDebug_Tick_Finalize(S)
    \cup NoDebug_Reconcile(S)
    \cup NoDebug_NetSerializeProxy_ServerRPC(S)

\* ---------------------------------------------------------------------------
\* Continuity break
\* ---------------------------------------------------------------------------

\* Buffers is a public member: between two calls the owner of the model can
\* move the head of the Sync buffer away from LastProcessedInputKeyframe,
\* which is the precondition of the recovery at lines 151-166.
Host_ResetSyncHead ==
    /\ pc = "idle"
    /\ lastOp = "Tick"
    /\ \E k \in 0..(MaxKeyframe + 1) :
          /\ k # GetHeadKeyframe(Buffers.Sync) + 1
          /\ Buffers' = [Buffers EXCEPT !.Sync = ResetNextHeadKeyframe(@, k)]
    /\ lastOp' = "Host_ResetSyncHead"
    /\ calls' = <<>>
    /\ UNCHANGED <<pc, NETSIM_MODEL_DEBUG, Parameters, TickInfo, RepProxy,
                   HistoricBuffers, rollback, InputLog>>
    /\ UNCHANGED hostVars


NextBreak ==
    \/ Next
    \/ Host_ResetSyncHead

SpecBreak == Init /\ [][NextBreak]_vars


\* ===========================================================================
\* Properties
\* ===========================================================================

\* The keyframe after the last processed one is at most MaxAllowedInputKeyframe.
NextCmdAllowed == LastProcessedInputKeyframe + 1 <= MaxAllowedInputKeyframe

\* The Input buffer holds the keyframe after the last processed one.
NextCmdPresent == HasKeyframe(Input, LastProcessedInputKeyframe + 1)

\* The remaining budget is at least the frame delta time of that command.
NextCmdAffordable ==
    GetRemainingAllowedSimulationTime(TickInfo)
        >= FindElementByKeyframe(Input, LastProcessedInputKeyframe + 1).dt

\* Positions of Tick after PreSimTick returned.
AfterPreSimTick == pc \in {"Sync", "ProcessInput", "PostSimTick", "Finalize"}

\* Positions of Tick after the continuity step.
AfterSyncStep == pc \in {"ProcessInput", "PostSimTick", "Finalize"}

\* Tick has just returned and nothing was called since.
TickReturned == pc = "idle" /\ lastOp = "Tick"

\* The indices of the calls of one kind made by the Tick in progress.
CallsOf(name) == {i \in DOMAIN calls : calls[i].call = name}

\* The keyframes Update was called for by the Tick in progress.
UpdatedKeyframes == {calls[i].k : i \in CallsOf("Update")}

\* C1: within every Tick the role's PreSimTick comes first, then every Update
\* of the tick, then the same role's PostSimTick, then the finalize step (debug
\* entry and historic merge); each of the three is made once, and no Update is
\* made before PreSimTick or after PostSimTick.
C1_TickOrder ==
    /\ Cardinality(CallsOf("PreSimTick")) <= 1
    /\ Cardinality(CallsOf("PostSimTick")) <= 1
    /\ Cardinality(CallsOf("Finalize")) <= 1
    /\ AfterPreSimTick \/ TickReturned => calls[1].call = "PreSimTick"
    /\ pc \in {"Sync", "ProcessInput", "PostSimTick"} =>
          CallsOf("PostSimTick") = {} /\ CallsOf("Finalize") = {}
    /\ pc = "Finalize" \/ TickReturned => CallsOf("PostSimTick") # {}
    /\ \A i \in CallsOf("Update") :
          /\ \E j \in CallsOf("PreSimTick") : j < i
          /\ \A j \in CallsOf("PostSimTick") \cup CallsOf("Finalize") : i < j
    /\ \A i \in CallsOf("PostSimTick") :
          /\ \E j \in CallsOf("PreSimTick") : j < i /\ calls[j].role = calls[i].role
          /\ \A j \in CallsOf("Finalize") : i < j
    /\ TickReturned =>
          /\ calls[Len(calls)].call = "Finalize"
          /\ calls[Len(calls) - 1].call = "PostSimTick"

\* A Tick that made two Update calls has returned.
C1_Witness == TickReturned /\ Cardinality(CallsOf("Update")) >= 2

\* C2: after every public call, LastProcessedInputKeyframe equals the head
\* keyframe of the Sync buffer whenever that head is above 0.
C2_HeadIsLastProcessed ==
    pc = "idle" /\ GetHeadKeyframe(Sync) > 0 =>
        LastProcessedInputKeyframe = GetHeadKeyframe(Sync)

\* A Tick that consumed a command left the Sync head above 0.
C2_Witness ==
    TickReturned /\ GetHeadKeyframe(Sync) > 0 /\ CallsOf("Update") # {}

\* C3: by the time a Tick with commands in the Input buffer has passed the
\* continuity step the Sync buffer has been seeded, the seed written at
\* keyframe 0 is the driver's InitSyncState value, and every keyframe k a Tick
\* consumes gets Sync[k] = Update(Sync[k-1], Input[k]) with the frame delta
\* time of Input[k], LastProcessedInputKeyframe becoming k.
C3_ColdStartAndStep ==
    /\ AfterSyncStep /\ GetHeadKeyframe(Input) > 0 => GetHeadKeyframe(Sync) >= 0
    /\ AfterSyncStep /\ lastOp = "InitializeForNetworkRole" =>
          \E i \in CallsOf("InitSyncState") : calls[i].k = 0
    /\ \A i \in CallsOf("InitSyncState") :
          calls[i].k = 0 /\ HasKeyframe(Sync, 0) /\ (AfterSyncStep \/ TickReturned) =>
              FindElementByKeyframe(Sync, 0) = InitSyncStateValue
    /\ \A i \in CallsOf("Update") :
          LET k == calls[i].k
          IN /\ LastProcessedInputKeyframe >= k
             /\ i = Len(calls) =>
                   LastProcessedInputKeyframe = k /\ GetHeadKeyframe(Sync) = k
             /\ HasKeyframe(Sync, k) /\ HasKeyframe(Sync, k - 1) /\ HasKeyframe(Input, k) =>
                   FindElementByKeyframe(Sync, k) =
                       Update(FindElementByKeyframe(Input, k).dt,
                              FindElementByKeyframe(Input, k),
                              FindElementByKeyframe(Sync, k - 1),
                              DefaultAuxState)

\* The first Tick seeded Sync[0] and consumed keyframes 1 and 2, all retained.
C3_Witness ==
    /\ TickReturned
    /\ \E i \in CallsOf("InitSyncState") : calls[i].k = 0
    /\ UpdatedKeyframes = {1, 2}
    /\ HasKeyframe(Sync, 0) /\ HasKeyframe(Sync, 2)
    /\ LastProcessedInputKeyframe = 2

\* The Input buffer lacks the next keyframe although it holds newer ones.
GapAtNextKeyframe ==
    /\ ~NextCmdPresent
    /\ GetHeadKeyframe(Input) > LastProcessedInputKeyframe + 1

\* C4: the engine never advances past a gap: when the Input buffer has no
\* element at LastProcessedInputKeyframe+1 the loop stops with nothing
\* changed, and the keyframes a Tick consumes are consecutive, starting right
\* after the keyframe that was last processed when the Tick was called.
C4_NeverPastGap ==
    /\ [][pc = "ProcessInput" /\ ~NextCmdPresent =>
             pc' = "PostSimTick" /\ UNCHANGED <<Buffers, TickInfo, calls>>]_vars
    /\ [](AfterPreSimTick \/ TickReturned =>
             \A i \in CallsOf("Update") :
                 /\ calls[i].k = calls[1].k
                                 + Cardinality({j \in CallsOf("Update") : j <= i})
                 /\ HasKeyframe(Input, calls[i].k))

\* The loop is at a gap that newer, allowed and affordable commands follow.
C4_Witness ==
    /\ pc = "ProcessInput"
    /\ GapAtNextKeyframe
    /\ NextCmdAllowed
    /\ GetRemainingAllowedSimulationTime(TickInfo) >= HeadElement(Input).dt

\* The loop considers a command it cannot afford.
BudgetExhausted ==
    /\ pc = "ProcessInput"
    /\ NextCmdAllowed
    /\ NextCmdPresent
    /\ GetRemainingAllowedSimulationTime(TickInfo)
           < FindElementByKeyframe(Input, LastProcessedInputKeyframe + 1).dt

\* C5: a keyframe is consumed only if the remaining budget is at least its
\* frame delta time when it is considered; when the budget is smaller the loop
\* stops, and the rest of the Tick leaves the Sync buffer,
\* LastProcessedInputKeyframe and TotalProcessedSimulationTime unchanged.
C5_BudgetClamp ==
    /\ [][pc = "ProcessInput" /\ Len(calls') > Len(calls) =>
             GetRemainingAllowedSimulationTime(TickInfo)
                 >= FindElementByKeyframe(Input, LastProcessedInputKeyframe + 1).dt]_vars
    /\ [][BudgetExhausted =>
             pc' = "PostSimTick" /\ UNCHANGED <<Buffers, TickInfo>>]_vars
    /\ [][(pc = "PostSimTick" \/ pc = "Finalize") =>
             UNCHANGED <<Sync, LastProcessedInputKeyframe,
                         TotalProcessedSimulationTime>>]_vars

\* The loop stops on the budget with some of it left.
C5_Witness ==
    BudgetExhausted /\ GetRemainingAllowedSimulationTime(TickInfo) > 0

\* The loop stops on MaxAllowedInputKeyframe alone: the next command is
\* present and affordable.
StoppedByMaxAllowed ==
    /\ pc = "ProcessInput"
    /\ ~NextCmdAllowed
    /\ NextCmdPresent
    /\ NextCmdAffordable

\* C7: MaxAllowedInputKeyframe bounds the advance of a tick: every keyframe a
\* Tick consumes, and so every keyframe Update writes to Sync in that tick, is
\* at most the MaxAllowedInputKeyframe left by that tick's PreSimTick, and a
\* loop pass whose next keyframe is above it consumes nothing.
C7_MaxAllowedBounds ==
    /\ [](AfterPreSimTick \/ TickReturned =>
             \A i \in CallsOf("Update") :
                 /\ calls[i].k <= MaxAllowedInputKeyframe
                 /\ i = Len(calls) => GetHeadKeyframe(Sync) <= MaxAllowedInputKeyframe)
    /\ [][AfterPreSimTick => MaxAllowedInputKeyframe' = MaxAllowedInputKeyframe]_vars
    /\ [][pc = "ProcessInput" /\ ~NextCmdAllowed =>
             pc' = "PostSimTick" /\ UNCHANGED <<Buffers, TickInfo, calls>>]_vars

\* A Tick consumed a command and then stops on MaxAllowedInputKeyframe alone.
C7_Witness == StoppedByMaxAllowed /\ CallsOf("Update") # {}

\* C8: after every public call TotalProcessedSimulationTime is the sum of the
\* frame delta times of the commands written at keyframes
\* 1..LastProcessedInputKeyframe of the Input buffer.
C8_TotalProcessedIsSum ==
    pc = "idle" =>
        /\ TotalProcessedSimulationTime = SumLog(InputLog, LastProcessedInputKeyframe)
        /\ \A k \in 1..LastProcessedInputKeyframe :
              HasKeyframe(Input, k) => FindElementByKeyframe(Input, k) = InputLog[k + 1]

\* A Tick returned having consumed two commands of different frame delta time
\* while a newer command is waiting.
C8_Witness ==
    /\ TickReturned
    /\ LastProcessedInputKeyframe = 2
    /\ InputLog[2].dt # InputLog[3].dt
    /\ GetHeadKeyframe(Input) > 2

\* The continuity step finds the Sync head away from LastProcessedInputKeyframe.
EntersBroken ==
    /\ pc = "Sync"
    /\ AdvanceCondition(Buffers)
    /\ GetHeadKeyframe(Sync) # LastProcessedInputKeyframe

\* C9: when a Tick enters the update path with the Sync head different from
\* LastProcessedInputKeyframe, the Sync buffer is re-seeded so that its head is
\* LastProcessedInputKeyframe and holds the driver's InitSyncState value, a
\* warning is logged exactly when LastProcessedInputKeyframe is not 0, the tick
\* does not fail, and the loop then consumes keyframe
\* LastProcessedInputKeyframe+1 in the same tick when that command is present,
\* allowed and affordable.
C9_ContinuityBreakRecovery ==
    /\ [][EntersBroken =>
             /\ pc' = "ProcessInput"
             /\ GetHeadKeyframe(Sync') = LastProcessedInputKeyframe
             /\ FindElementByKeyframe(Sync', LastProcessedInputKeyframe)
                    = InitSyncStateValue
             /\ LastProcessedInputKeyframe' = LastProcessedInputKeyframe
             /\ TotalProcessedSimulationTime' = TotalProcessedSimulationTime
             /\ calls'[Len(calls')] =
                    Call("InitSyncState", LastProcessedInputKeyframe)
             /\ (LastProcessedInputKeyframe # 0) <=>
                    (Len(calls') = Len(calls) + 2
                     /\ calls'[Len(calls') - 1] =
                            Call("Warning", LastProcessedInputKeyframe))
             /\ (LastProcessedInputKeyframe = 0) <=> (Len(calls') = Len(calls) + 1)]_vars
    /\ [][pc = "Sync" /\ ~EntersBroken => calls' = calls]_vars
    /\ [][pc = "ProcessInput" /\ CallsOf("InitSyncState") # {}
              /\ NextCmdAllowed
              /\ NextCmdPresent /\ NextCmdAffordable =>
             calls' = Append(calls, Call("Update", LastProcessedInputKeyframe + 1))]_vars
    /\ [](pc = "CheckFailed" => CallsOf("InitSyncState") = {})
    /\ [](\A i \in CallsOf("InitSyncState") :
             i < Len(calls) /\ calls[i + 1].call = "Update" =>
                 calls[i + 1].k = calls[i].k + 1)

\* A Tick logged the warning, re-seeded Sync above keyframe 0, consumed the
\* next command and returned.
C9_Witness ==
    /\ TickReturned
    /\ \E i \in CallsOf("Warning") :
          /\ calls[i].k > 0
          /\ calls[i + 1] = [calls[i] EXCEPT !.call = "InitSyncState"]
          /\ calls[i + 2] = [calls[i] EXCEPT !.call = "Update", !.k = @ + 1]

\* The body of the first autonomous Tick after a rollback is over.
ReplayTickDone ==
    /\ pc = "Finalize"
    /\ lastOp = "Rollback"
    /\ Parameters.Role = "ROLE_AutonomousProxy"

\* The rollback left Sync.head = K and LastProcessedInputKeyframe = K.
RolledBackTo(K) ==
    /\ lastOp = "Rollback"
    /\ rollback.K = K
    /\ GetHeadKeyframe(Sync) = K
    /\ LastProcessedInputKeyframe = K

\* C10 as stated: after an autonomous Reconcile rolled back to keyframe K
\* while Input retained K+1..H, the next Tick with role AutonomousProxy leaves
\* Sync[H] in the buffer and LastProcessedInputKeyframe >= H.
C10_ReplayAsStated ==
    /\ pc = "idle" /\ lastOp = "Rollback" => RolledBackTo(rollback.K)
    /\ ReplayTickDone /\ rollback.T <= rollback.K + 1 =>
          /\ HasKeyframe(Sync, rollback.H)
          /\ LastProcessedInputKeyframe >= rollback.H

\* After PreSimTick the Input buffer still holds K+1..H and the allowed
\* simulation time covers the commands up to H.
ReplayPossible ==
    /\ \A k \in (rollback.K + 1)..rollback.H : HasKeyframe(Input, k)
    /\ TickInfo.TotalAllowedSimulationTime >= SumLog(InputLog, rollback.H)

\* C10, amended: after an autonomous Reconcile rolled back to keyframe K
\* (Sync.head = K, LastProcessedInputKeyframe = K), the next Tick with role
\* AutonomousProxy replays K+1..H whenever, after its PreSimTick, Input still
\* retains K+1..H and the time budget covers their frame delta times: Update is
\* then called for each of them in order, LastProcessedInputKeyframe >= H after
\* the tick, and Sync[H] exists unless the Sync buffer has evicted it since.
C10_RollbackAndReplay ==
    /\ pc = "idle" /\ lastOp = "Rollback" => RolledBackTo(rollback.K)
    /\ ReplayTickDone /\ ReplayPossible =>
          /\ LastProcessedInputKeyframe >= rollback.H
          /\ (rollback.K + 1)..rollback.H \subseteq UpdatedKeyframes
          /\ LastProcessedInputKeyframe - rollback.H < Sync.cap =>
                HasKeyframe(Sync, rollback.H)

\* The Tick after a rollback to keyframe 0 replayed the commands 1 and 2.
C10_Witness ==
    /\ ReplayTickDone
    /\ ReplayPossible
    /\ rollback.K = 0 /\ rollback.H = 2
    /\ {1, 2} \subseteq UpdatedKeyframes
    /\ HasKeyframe(Sync, 2)

\* The PreSimTick of a role that refills the budget has returned with keyframe
\* k in the Input buffer, allowed, and a budget of at least its frame delta
\* time.
Refilled(k) ==
    /\ pc = "Sync"
    /\ Parameters.Role \in {"ROLE_Authority", "ROLE_AutonomousProxy"}
    /\ HasKeyframe(Input, k)
    /\ k <= MaxAllowedInputKeyframe
    /\ GetRemainingAllowedSimulationTime(TickInfo) >= FindElementByKeyframe(Input, k).dt

\* C6 as stated: if Input[k] is present with k <= MaxAllowedInputKeyframe and
\* ticks keep being called with the budget refilled by PreSimTick to at least
\* the frame delta time of Input[k], then eventually
\* LastProcessedInputKeyframe >= k.
C6_EventuallyProcessedAsStated ==
    \A k \in 1..MaxKeyframe :
        []<>Refilled(k) => <>(LastProcessedInputKeyframe >= k)

\* The loop of the Tick in progress is over.
LoopOver == pc = "PostSimTick" \/ pc = "Finalize"

\* The Input buffer holds every keyframe from the one after the last processed
\* at the call of the Tick in progress up to k, k is allowed, and the budget
\* left by PreSimTick covers them all.
Replayable(k) ==
    /\ k <= MaxAllowedInputKeyframe
    /\ \A j \in (calls[1].k + 1)..k : HasKeyframe(Input, j)
    /\ TickInfo.TotalAllowedSimulationTime >= SumLog(InputLog, k)

\* C6, amended: an input left unprocessed for lack of budget is processed by
\* a later tick once the budget left by that tick's PreSimTick covers it: a
\* loop pass consumes keyframe LastProcessedInputKeyframe+1 whenever it is in
\* the Input buffer, at most MaxAllowedInputKeyframe and affordable, so the
\* loop only stops when one of the three fails; and a Tick for which Input
\* holds every keyframe from LastProcessedInputKeyframe+1 to k, with
\* k <= MaxAllowedInputKeyframe and a budget covering their frame delta times,
\* ends with LastProcessedInputKeyframe >= k.
C6_ProcessedOnceAffordable ==
    /\ [][pc = "ProcessInput" /\ NextCmdAllowed
              /\ NextCmdPresent /\ NextCmdAffordable =>
             /\ LastProcessedInputKeyframe' = LastProcessedInputKeyframe + 1
             /\ pc' = "ProcessInput"]_vars
    /\ [](LoopOver =>
             ~(/\ NextCmdAllowed
               /\ NextCmdPresent
               /\ NextCmdAffordable))
    /\ [](LoopOver =>
             \A k \in 1..MaxKeyframe :
                 Replayable(k) => LastProcessedInputKeyframe >= k)

\* An autonomous Tick that follows a Tick consumes a command produced before
\* it, together with the command its own PreSimTick produced.
C6_Witness ==
    /\ pc = "Finalize"
    /\ lastOp = "Tick"
    /\ Parameters.Role = "ROLE_AutonomousProxy"
    /\ GetHeadKeyframe(Input) - 1 \in UpdatedKeyframes
    /\ GetHeadKeyframe(Input) \in UpdatedKeyframes

\* The states of the keyframes lo..LastProcessedInputKeyframe that Sync still
\* holds are those of a fresh run from the state start at keyframe lo.
SyncIsFreshRun(start, lo) ==
    \A k \in lo..LastProcessedInputKeyframe :
        HasKeyframe(Sync, k) =>
            FindElementByKeyframe(Sync, k) = FreshRun(start, InputLog, lo, k)

\* C11: replay equivalence. After an autonomous rollback to keyframe K with
\* the authoritative state A, the Tick that replays K+1..H leaves in Sync, at
\* every keyframe from K to the last processed one (H included), the state a
\* fresh run from A at K with the same commands K+1..H produces.
C11_ReplayEquivalence ==
    ReplayTickDone => SyncIsFreshRun(rollback.A, rollback.K)

\* The replay went over at least two commands and Sync holds keyframe H.
C11_Witness ==
    /\ ReplayTickDone
    /\ rollback.H >= rollback.K + 2
    /\ (rollback.K + 1)..rollback.H \subseteq UpdatedKeyframes
    /\ HasKeyframe(Sync, rollback.H)

\* C12: determinism. Without corrections from a server the state Sync holds
\* at any keyframe is the one a single pass from the InitSyncState output over
\* the commands of the Input sequence gives, whichever way the budget and
\* MaxAllowedInputKeyframe split the commands across the ticks.
C12_Determinism ==
    SyncIsFreshRun(InitSyncStateValue, 0)

\* Keyframe 1 was processed by an earlier tick, 2 and 3 by this one.
C12_Witness ==
    /\ pc = "Finalize"
    /\ UpdatedKeyframes = {2, 3}
    /\ HasKeyframe(Sync, 3)

\* P's dependents list contains S if and only if S's parent is P, for the
\* simulations that exist.
LinksSymmetric ==
    \A P \in Sims, S \in Sims :
        alive[P] /\ alive[S] =>
            (Contains(DependentSimulations[P], S) <=> ParentSimulation[S] = P)

RECURSIVE Ancestor(_, _)
Ancestor(x, n) ==
    IF n = 0 \/ x = NULL THEN x ELSE Ancestor(ParentSimulation[x], n - 1)

\* C14: after any sequence of SetParentSimulation calls, following the parent
\* links from a simulation never comes back to it; in particular no
\* simulation is its own parent.
C14_Acyclic ==
    ~linkCalls.direct /\ linkCalls.destroyed.sim = NULL =>
        \A x \in Sims : \A n \in 1..Cardinality(Sims) : Ancestor(x, n) # x

\* C15: after a simulation is destroyed, with the link state before reached
\* through SetParentSimulation, no surviving simulation has it as parent and
\* no surviving simulation's dependents list contains it.
C15_TeardownClearsLinks ==
    ~linkCalls.direct =>
        \A d \in Sims, x \in Sims :
            ~alive[d] /\ alive[x] =>
                /\ ParentSimulation[x] # d
                /\ ~Contains(DependentSimulations[x], d)

\* The simulation destroyed last had a parent and a dependent, and both
\* survive it.
C15_Witness ==
    /\ ~linkCalls.direct
    /\ linkCalls.destroyed.sim # NULL
    /\ linkCalls.destroyed.hadParent
    /\ linkCalls.destroyed.dependents >= 1
    /\ Cardinality({x \in Sims : alive[x]}) = 2

\* The proxy member that corresponds to a target.
ProxyOfTarget ==
    [ServerRPC |-> "RepProxy_ServerRPC", AutonomousProxy |-> "RepProxy_Autonomous",
     SimulatedProxy |-> "RepProxy_Simulated", Replay |-> "RepProxy_Replay",
     Debug |-> "RepProxy_Debug"]

\* C16 as stated: each of the five enumerated targets is dispatched to its
\* one proxy, and the assertion is hit only for a target outside the
\* enumeration.
C16_DispatchAsStated ==
    \A i \in DOMAIN dispatched :
        IF dispatched[i].Target \in EReplicationProxyTarget
        THEN /\ dispatched[i].proxies = {ProxyOfTarget[dispatched[i].Target]}
             /\ ~dispatched[i].checkf
        ELSE /\ dispatched[i].proxies = {}
             /\ dispatched[i].checkf

\* The targets that have a proxy in this build: Debug only with
\* NETSIM_MODEL_DEBUG.
TargetHasProxy(Target) ==
    /\ Target \in EReplicationProxyTarget
    /\ Target = "Debug" => NETSIM_MODEL_DEBUG

\* C16, amended: NetSerializeProxy and GetProxyDirtyCount dispatch to exactly
\* the one proxy of the target for ServerRPC, AutonomousProxy, SimulatedProxy
\* and Replay, and for Debug when NETSIM_MODEL_DEBUG is compiled in; they hit
\* the assertion, calling no proxy, for a target outside the enumeration and
\* for Debug when NETSIM_MODEL_DEBUG is compiled out.
C16_Dispatch ==
    \A i \in DOMAIN dispatched :
        IF TargetHasProxy(dispatched[i].Target)
        THEN /\ dispatched[i].proxies = {ProxyOfTarget[dispatched[i].Target]}
             /\ ~dispatched[i].checkf
        ELSE /\ dispatched[i].proxies = {}
             /\ dispatched[i].checkf

\* NetSerializeProxy served the Replay target, then GetProxyDirtyCount hit
\* the assertion on the Debug target of a build without the debug subsystem.
C16_Witness ==
    /\ ~NETSIM_MODEL_DEBUG
    /\ Len(dispatched) = 2
    /\ dispatched[1].fn = "NetSerialize" /\ dispatched[1].Target = "Replay"
    /\ dispatched[2].fn = "GetProxyDirtyCount" /\ dispatched[2].Target = "Debug"
    /\ dispatched[2].checkf

\* The number of true returns is floor(T / threshold) plus or minus 1.
SentIsFloorWithinOne ==
    LET floor == pacerRun.T \div ServerRPCThresholdTimeSeconds
    IN pacerRun.sent >= floor - 1 /\ pacerRun.sent <= floor + 1

\* C17 as stated: for any sequence of ShouldSendServerRPC calls after
\* SetDesiredServerRPCSendFrequency whose delta times sum to T, with T much
\* larger than the threshold (here: at least MaxPacerCalls thresholds), the
\* number of true returns is floor(T / threshold) plus or minus 1.
C17_FairnessAsStated ==
    /\ pacerRun.fromZero
    /\ pacerRun.T >= MaxPacerCalls * ServerRPCThresholdTimeSeconds
    => SentIsFloorWithinOne

\* C17, amended: for any sequence of ShouldSendServerRPC calls whose delta
\* times are each at most the threshold and sum to T, made on an accumulator
\* that was 0 when the threshold was set, the number of true returns is
\* floor(T / threshold) plus or minus 1 (the accumulator holding what is left
\* of T).
C17_FairnessCappedDeltas ==
    pacerRun.fromZero /\ pacerRun.capped =>
        /\ SentIsFloorWithinOne
        /\ pacerRun.sent * ServerRPCThresholdTimeSeconds
              + ServerRPCAccumulatedTimeSeconds = pacerRun.T

\* Six calls at a threshold of two units, the delta times summing to six
\* units as six calls of half a threshold do: three returned true.
C17_Witness ==
    /\ pacerRun.fromZero /\ pacerRun.capped
    /\ ServerRPCThresholdTimeSeconds = 2
    /\ pacerRun.calls = 6
    /\ pacerRun.T = 6
    /\ pacerRun.sent = 3

\* C18: each call adds min(dt, threshold) to the accumulator, so that from an
\* accumulator of 0 the accumulator is strictly below the threshold after
\* every call, for any non-negative dt.
C18_AccumulatorBelowThreshold ==
    pacerRun.fromZero =>
        ServerRPCAccumulatedTimeSeconds < ServerRPCThresholdTimeSeconds

\* A loop pass consumes the command of keyframe k.
Consumes(k) ==
    /\ pc = "ProcessInput"
    /\ calls' = Append(calls, Call("Update", k))

\* C19: the checks of the input loop never fail in a state reached through
\* InitializeForNetworkRole, Tick, Reconcile and NetSerializeProxy: whenever
\* the command of keyframe k = LastProcessedInputKeyframe + 1 is consumed,
\* Sync[LastProcessedInputKeyframe] exists and the write that follows
\* produces keyframe k.
C19_LoopChecksHold ==
    /\ [](pc # "CheckFailed")
    /\ [][\A k \in 0..(MaxKeyframe + 1) :
            Consumes(k) =>
                /\ k = LastProcessedInputKeyframe + 1
                /\ HasKeyframe(Sync, LastProcessedInputKeyframe)
                /\ Sync.cap >= 1
                /\ GetHeadKeyframe(Sync') = k
                /\ HasKeyframe(Sync', k)]_vars

\* After a rollback to a keyframe above 0 the Tick consumed two commands, the
\* first of them on the state the rollback wrote.
C19_Witness ==
    /\ pc = "ProcessInput"
    /\ lastOp = "Rollback"
    /\ rollback.K >= 1
    /\ UpdatedKeyframes = {rollback.K + 1, rollback.K + 2}

\* After PreSimTick the head of Input is not above the head of Sync.
NothingToAdvance ==
    pc = "Sync" /\ GetHeadKeyframe(Input) <= GetHeadKeyframe(Sync)

\* C20: a Tick in which, after PreSimTick, Input.head <= Sync.head goes on to
\* PostSimTick with no re-seed and no Update call and with the Sync buffer,
\* LastProcessedInputKeyframe and TotalProcessedSimulationTime unchanged,
\* also when Sync.head differs from LastProcessedInputKeyframe; the input
\* loop is entered only from Input.head > Sync.head.
C20_AdvanceCondition ==
    /\ [][NothingToAdvance =>
            /\ pc' = "PostSimTick"
            /\ Sync' = Sync
            /\ LastProcessedInputKeyframe' = LastProcessedInputKeyframe
            /\ TotalProcessedSimulationTime' = TotalProcessedSimulationTime
            /\ calls' = calls]_vars
    /\ [](pc = "ProcessInput" /\ CallsOf("Update") = {}
                              /\ CallsOf("InitSyncState") = {}
            => GetHeadKeyframe(Input) > GetHeadKeyframe(Sync))

\* PostSimTick is reached with nothing done since PreSimTick while the head
\* of Sync, not below the head of Input, differs from
\* LastProcessedInputKeyframe.
C20_Witness ==
    /\ pc = "PostSimTick"
    /\ Len(calls) = 1
    /\ GetHeadKeyframe(Input) >= 1
    /\ GetHeadKeyframe(Input) <= GetHeadKeyframe(Sync)
    /\ GetHeadKeyframe(Sync) # LastProcessedInputKeyframe

\* C21: debug capture does not change the simulation. Every step of the
\* model, with the debug buffer and the historic buffers in use or not, is a
\* step of the model built without them from the same Input buffer, Sync
\* buffer and tick state: the same call with the same inputs leaves both with
\* the same Input, Sync, LastProcessedInputKeyframe and
\* TotalProcessedSimulationTime, after every call and at every point of Tick.
C21_DebugDoesNotInterfere ==
    [][Sim' \in NoDebug_Next(Sim)]_vars

\* With debug capture on, a Tick that consumed two commands has written them
\* to its debug entry and merged the buffers into the historic ones.
C21_Witness ==
    /\ NETSIM_MODEL_DEBUG
    /\ TickReturned
    /\ HistoricBuffers.valid
    /\ GetHeadKeyframe(HistoricBuffers.Sync) >= 2
    /\ Cardinality(HeadElement(Buffers.Debug).ProcessedKeyframes) >= 2
    /\ HeadElement(Buffers.Debug).LastProcessedKeyframe = LastProcessedInputKeyframe

\* The list of P holds S exactly once.
HoldsOnce(P, S) ==
    Cardinality({i \in DOMAIN DependentSimulations[P] :
                    DependentSimulations[P][i] = S}) = 1

\* C22: when the links are changed only through SetParentSimulation,
\* ClearAllDependentSimulations and destruction, the check of
\* AddDepdentSimulation never fails and no dependents list holds a simulation
\* more than once, also after SetParentSimulation was called with the parent
\* the simulation already has.
C22_NoDuplicateDependents ==
    ~linkCalls.direct =>
        /\ linkCalls.halt # "check"
        /\ \A P \in Sims, S \in Sims :
               Cardinality({i \in DOMAIN DependentSimulations[P] :
                               DependentSimulations[P][i] = S}) <= 1

\* SetParentSimulation was just called with the parent the simulation
\* already had: the parent's list, which has another dependent too, holds
\* the simulation once.
C22_Witness ==
    /\ ~linkCalls.direct
    /\ linkCalls.again
    /\ linkCalls.halt = "none"
    /\ \E P \in Sims, S \in Sims :
          /\ ParentSimulation[S] = P
          /\ HoldsOnce(P, S)
          /\ Len(DependentSimulations[P]) = 2

====
